---------------------------- MODULE Spec2Model ----------------------------
(***************************************************************************)
(* arxiv_spotlighter: a driver (src/main.py) that loads two secrets, asks  *)
(* the arXiv index for the abstracts of one day and one category           *)
(* (utils/arxiv/_arxiv_paper_fetcher.py), translates each abstract with a  *)
(* hosted completion model and posts it to a Slack webhook                 *)
(* (utils/slack/_slack_notifier.py; utils/_slack_notifier.py is the older  *)
(* notifier with the same validation and delivery code).                   *)
(*                                                                         *)
(* The specifications share the variables:                                 *)
(*   Spec          the driver, `python main.py`, one step per statement    *)
(*                 group of main() and of the __main__ block;              *)
(*   SpecLive      Spec with the fairness of a sequential program;         *)
(*   SpecFetcher   an ArxivPaperFetcher object and calls of run();         *)
(*   SpecNotifier  notifier objects and calls of run() / notify().         *)
(*                                                                         *)
(* Text whose characters matter (dates, categories, the query) is a        *)
(* sequence of one-character strings; other text is an opaque string.      *)
(* The fetcher's f-string at line 59 nests double quotes, which only       *)
(* Python >= 3.12 accepts; the model is of the program under such an       *)
(* interpreter.                                                            *)
(***************************************************************************)
EXTENDS Integers, Sequences, FiniteSets, TLC

VARIABLES
    environ,         \* os.environ after load_dotenv(): OPENAI_API_KEY, WEBHOOK_URL
    llm_fail_at,     \* completion service: ordinal of the request it fails (0: none)
    webhook_fail_at, \* webhook, as the driver meets it: ordinal of the POST it rejects (0: none)
    index,           \* the arXiv service's answer to the last search request
    pc,              \* the driver's position
    exc,             \* the exception in flight / caught by the driver
    secrets,         \* main(): secrets
    fetcher,         \* the ArxivPaperFetcher object
    summary_list,    \* main(): summary_list
    notifier,        \* the notifier object under call (SpecNotifier)
    call,            \* the last call made on a component and its inputs
    outcome,         \* how that call ended
    ncalls,          \* calls made on the component so far
    log,             \* log lines emitted by the current top-level call
    searches,        \* search requests issued
    completions,     \* completion requests issued
    posts            \* HTTP POSTs issued, in order: [url, data]

vars == <<environ, llm_fail_at, webhook_fail_at, index, pc, exc, secrets, fetcher,
          summary_list, notifier, call, outcome, ncalls, log, searches, completions,
          posts>>

-----------------------------------------------------------------------------
(* Bounds *)

\* calls made on one component object
MaxCalls == 2
\* records the index holds for a query
MaxIndex == 3

-----------------------------------------------------------------------------
(* Python values *)

\* None where a string is expected, and None where a list or a character string is
None == [t |-> "NoneType", v |-> ""]
NoneObj == [t |-> "NoneType", v |-> <<>>]
\* an argument the caller did not pass
Missing == [t |-> "missing", v |-> ""]
PyStr(s) == [t |-> "str", v |-> s]
PyInt(s) == [t |-> "int", v |-> s]
PyList(s) == [t |-> "list", v |-> s]
PyChars(s) == [t |-> "chars", v |-> s]

IsNone(x) == x.t = "NoneType"

\* bool(x): the empty string, 0, None and the empty list are false
Truthy(x) ==
    CASE x.t = "str" -> x.v # ""
      [] x.t = "int" -> x.v # "0"
      [] x.t = "list" -> x.v # <<>>
      [] x.t = "chars" -> x.v # <<>>
      [] OTHER -> FALSE

\* isinstance(x, str)
IsStr(x) == x.t = "str"

Min(a, b) == IF a <= b THEN a ELSE b

\* how a call ends
Returned(vt, value) ==
    [kind |-> "return", exc |-> "", msg |-> "", cause |-> "", vt |-> vt, value |-> value]
Raised(e, msg, cause) ==
    [kind |-> "raise", exc |-> e, msg |-> msg, cause |-> cause, vt |-> "", value |-> <<>>]
NoOutcome ==
    [kind |-> "none", exc |-> "", msg |-> "", cause |-> "", vt |-> "", value |-> <<>>]

LogLine(level, msg, args) == [level |-> level, msg |-> msg, args |-> args]

-----------------------------------------------------------------------------
(* utils/arxiv/_arxiv_paper_fetcher.py *)

s_cat == <<"c", "a", "t", ":">>
s_submittedDate == <<"s", "u", "b", "m", "i", "t", "t", "e", "d", "D", "a", "t", "e", ":", "[">>
s_0000 == <<"0", "0", "0", "0">>
s_2359 == <<"2", "3", "5", "9">>
s_TO == <<" ", "T", "O", " ">>
s_close == <<"]">>
s_AND == <<" ", "A", "N", "D", " ">>

d_20240606 == <<"2", "0", "2", "4", "0", "6", "0", "6">>
d_20240101 == <<"2", "0", "2", "4", "0", "1", "0", "1">>
d_19991231 == <<"1", "9", "9", "9", "1", "2", "3", "1">>
c_quant_ph == <<"q", "u", "a", "n", "t", "-", "p", "h">>
c_cs_AI == <<"c", "s", ".", "A", "I">>
c_cat == <<"c", "a", "t">>
c_AND == <<"A", "N", "D">>

DefaultMaxResults == 2

\* the dataclass with its defaults; a field not given takes the default
ArxivPaperFetcherConfig(kwargs) ==
    [date |-> IF "date" \in DOMAIN kwargs THEN kwargs.date ELSE d_20240101,
     category |-> IF "category" \in DOMAIN kwargs THEN kwargs.category ELSE c_quant_ph,
     max_results |-> IF "max_results" \in DOMAIN kwargs THEN kwargs.max_results
                     ELSE DefaultMaxResults]

ArxivPaperFetcher_init(config) ==
    [date |-> config.date,
     category |-> config.category,
     max_results |-> config.max_results,
     query |-> NoneObj,
     results |-> NoneObj]

\* sep.join(parts)
RECURSIVE Join(_, _)
Join(sep, parts) ==
    IF parts = <<>> THEN <<>>
    ELSE IF Len(parts) = 1 THEN parts[1]
    ELSE parts[1] \o sep \o Join(sep, Tail(parts))

\* as _make_query, with the start of the day copied to the end of the range
ArxivPaperFetcher_make_query_SameBound(self) ==
    LET query_category == s_cat \o self.category
        query_date == s_submittedDate \o (self.date \o s_0000) \o s_TO
                          \o (self.date \o s_0000) \o s_close
    IN [self EXCEPT !.query = PyChars(Join(s_AND, <<query_category, query_date>>))]

ArxivPaperFetcher_make_query(self) ==
    LET query_category == s_cat \o self.category
        query_date == s_submittedDate \o (self.date \o s_0000) \o s_TO
                          \o (self.date \o s_2359) \o s_close
    IN [self EXCEPT !.query = PyChars(Join(s_AND, <<query_category, query_date>>))]

\* The arXiv service's answer to one search: an error, or the matching records,
\* newest first.
ArxivErrors == {"HTTPError", "UnexpectedEmptyPageError", "ConnectionError"}
Summaries == {"A", "B"}
RecordLists == UNION {[1..n -> [summary : Summaries]] : n \in 0..MaxIndex}
ArxivAnswers ==
    {[err |-> "none", records |-> rs] : rs \in RecordLists}
        \cup {[err |-> e, records |-> <<>>] : e \in ArxivErrors}

\* list(client.results(Search(query, max_results, sort_by))): the client yields at
\* most max_results records, or raises
client_results(answer, max_results) ==
    SubSeq(answer.records, 1, Min(max_results, Len(answer.records)))

\* as _fetch_papers, with max_results not passed to arxiv.Search
ArxivPaperFetcher_fetch_papers_NoMaxResults(self, answer) ==
    IF answer.err = "none"
    THEN [self |-> [self EXCEPT !.results = PyList(answer.records)],
          raised |-> "",
          log |-> <<LogLine("INFO", "Fetched papers.", <<Len(answer.records)>>)>>]
    ELSE IF answer.err = "HTTPError"
    THEN [self |-> [self EXCEPT !.results = PyList(<<>>)],
          raised |-> "",
          log |-> <<LogLine("ERROR", "HTTP error occurred while fetching papers", <<>>)>>]
    ELSE IF answer.err = "UnexpectedEmptyPageError"
    THEN [self |-> [self EXCEPT !.results = PyList(<<>>)],
          raised |-> "",
          log |-> <<LogLine("ERROR", "No results were found for the specified query", <<>>)>>]
    ELSE [self |-> [self EXCEPT !.results = PyList(<<>>)],
          raised |-> "",
          log |-> <<LogLine("ERROR", "Unexpected error occurred while fetching papers", <<>>)>>]

\* as _fetch_papers, without the last handler (except Exception)
ArxivPaperFetcher_fetch_papers_NoCatchAll(self, answer) ==
    IF answer.err = "none"
    THEN LET rs == client_results(answer, self.max_results)
         IN [self |-> [self EXCEPT !.results = PyList(rs)],
             raised |-> "",
             log |-> <<LogLine("INFO", "Fetched papers.", <<Len(rs)>>)>>]
    ELSE IF answer.err = "HTTPError"
    THEN [self |-> [self EXCEPT !.results = PyList(<<>>)],
          raised |-> "",
          log |-> <<LogLine("ERROR", "HTTP error occurred while fetching papers", <<>>)>>]
    ELSE IF answer.err = "UnexpectedEmptyPageError"
    THEN [self |-> [self EXCEPT !.results = PyList(<<>>)],
          raised |-> "",
          log |-> <<LogLine("ERROR", "No results were found for the specified query", <<>>)>>]
    ELSE [self |-> self, raised |-> answer.err, log |-> <<>>]

\* except ... as e: every handler logs an error and stores the empty list
ArxivPaperFetcher_fetch_papers(self, answer) ==
    IF answer.err = "none"
    THEN LET rs == client_results(answer, self.max_results)
         IN [self |-> [self EXCEPT !.results = PyList(rs)],
             raised |-> "",
             log |-> <<LogLine("INFO", "Fetched papers.", <<Len(rs)>>)>>]
    ELSE IF answer.err = "HTTPError"
    THEN [self |-> [self EXCEPT !.results = PyList(<<>>)],
          raised |-> "",
          log |-> <<LogLine("ERROR", "HTTP error occurred while fetching papers", <<>>)>>]
    ELSE IF answer.err = "UnexpectedEmptyPageError"
    THEN [self |-> [self EXCEPT !.results = PyList(<<>>)],
          raised |-> "",
          log |-> <<LogLine("ERROR", "No results were found for the specified query", <<>>)>>]
    ELSE [self |-> [self EXCEPT !.results = PyList(<<>>)],
          raised |-> "",
          log |-> <<LogLine("ERROR", "Unexpected error occurred while fetching papers", <<>>)>>]

\* run(): the object after the call, how the call ended, and its log lines
ArxivPaperFetcher_run(self, answer) ==
    LET f == ArxivPaperFetcher_fetch_papers(ArxivPaperFetcher_make_query(self), answer)
    IN IF f.raised # ""
       THEN [self |-> f.self, outcome |-> Raised(f.raised, "", ""), log |-> f.log]
       ELSE IF Truthy(f.self.results)
       THEN [self |-> f.self,
             outcome |-> Returned("list", [i \in 1..Len(f.self.results.v) |->
                                               f.self.results.v[i].summary]),
             log |-> f.log]
       ELSE [self |-> f.self,
             outcome |-> Returned("list", <<>>),
             log |-> f.log \o <<LogLine("WARNING", "No results fetched.", <<>>)>>]

-----------------------------------------------------------------------------
(* utils/slack/_slack_notifier.py and utils/_slack_notifier.py *)

NoConfig == [webhook_url |-> None, channel |-> None, username |-> None, icon |-> None]

\* SlackNotifierConfig(webhook_url, channel, username="ArxivSpotlighter", icon=":+1:"):
\* a call that leaves out a parameter without default is a TypeError
SlackNotifierConfig_init(webhook_url, channel, username, icon) ==
    IF webhook_url = Missing
    THEN [raised |-> "TypeError",
          msg |-> "__init__() missing 1 required positional argument: 'webhook_url'",
          value |-> NoConfig]
    ELSE IF channel = Missing
    THEN [raised |-> "TypeError",
          msg |-> "__init__() missing 1 required positional argument: 'channel'",
          value |-> NoConfig]
    ELSE [raised |-> "",
          msg |-> "",
          value |-> [webhook_url |-> webhook_url,
                     channel |-> channel,
                     username |-> IF username = Missing THEN PyStr("ArxivSpotlighter")
                                  ELSE username,
                     icon |-> IF icon = Missing THEN PyStr(":+1:") ELSE icon]]

NoNotifier ==
    [cls |-> "", webhook_url |-> None, channel |-> None, username |-> None, icon |-> None]

SlackNotifier_init(config) ==
    [cls |-> "slack.SlackNotifier",
     webhook_url |-> config.webhook_url,
     channel |-> config.channel,
     username |-> config.username,
     icon |-> config.icon]

SlackNotifier_make_payload(self, text, color) ==
    [channel |-> self.channel,
     username |-> self.username,
     icon_emoji |-> self.icon,
     attachments |-> <<[color |-> color, text |-> text]>>]

\* json.dumps of one value: a string in quotes, None as null
json_value(x) == IF IsNone(x) THEN <<"null">> ELSE <<"\"", x.v, "\"">>

\* json.dumps(payload): the keys in insertion order, as a sequence of tokens
json_dumps(payload) ==
    <<"{", "\"channel\": ">> \o json_value(payload.channel)
        \o <<", ", "\"username\": ">> \o json_value(payload.username)
        \o <<", ", "\"icon_emoji\": ">> \o json_value(payload.icon_emoji)
        \o <<", ", "\"attachments\": ", "[", "{", "\"color\": ">>
        \o json_value(payload.attachments[1].color)
        \o <<", ", "\"text\": ">> \o json_value(payload.attachments[1].text)
        \o <<"}", "]", "}">>

\* What the webhook does with one POST: the transport fails, or a response with a
\* status arrives (the last one, redirects followed).
Statuses == {101, 200, 204, 301, 399, 400, 404, 500, 599, 600}
TransportErrors == {"ConnectionError", "Timeout"}
Responses ==
    {[transport |-> "ok", status |-> s] : s \in Statuses}
        \cup {[transport |-> e, status |-> 0] : e \in TransportErrors}

\* Response.raise_for_status(): HTTPError for a client or a server error status
raise_for_status(status) == 400 <= status /\ status < 600

\* as _send_request, without the call of raise_for_status()
SlackNotifier_send_request_NoStatusCheck(self, payload, response) ==
    LET post == [url |-> self.webhook_url, data |-> json_dumps(payload)]
    IN IF response.transport # "ok"
       THEN [posts |-> <<post>>,
             outcome |-> Raised("RequestException", "Failed to send notification",
                                response.transport)]
       ELSE [posts |-> <<post>>, outcome |-> Returned("Response", <<>>)]

\* as _send_request, with a second attempt after a failed one
SlackNotifier_send_request_Retry(self, payload, response) ==
    LET post == [url |-> self.webhook_url, data |-> json_dumps(payload)]
    IN IF response.transport # "ok"
       THEN [posts |-> <<post, post>>,
             outcome |-> Raised("RequestException", "Failed to send notification",
                                response.transport)]
       ELSE IF raise_for_status(response.status)
       THEN [posts |-> <<post, post>>,
             outcome |-> Raised("RequestException", "Failed to send notification",
                                "HTTPError")]
       ELSE [posts |-> <<post>>, outcome |-> Returned("Response", <<>>)]

\* _send_request(payload): the POSTs it issues and how it ends
SlackNotifier_send_request(self, payload, response) ==
    LET post == [url |-> self.webhook_url, data |-> json_dumps(payload)]
    IN IF response.transport # "ok"
       THEN [posts |-> <<post>>,
             outcome |-> Raised("RequestException", "Failed to send notification",
                                response.transport)]
       ELSE IF raise_for_status(response.status)
       THEN [posts |-> <<post>>,
             outcome |-> Raised("RequestException", "Failed to send notification",
                                "HTTPError")]
       ELSE [posts |-> <<post>>, outcome |-> Returned("Response", <<>>)]

\* as run, with the check of color left out
SlackNotifier_run_NoColorCheck(self, text, color, response) ==
    IF text = Missing \/ color = Missing
    THEN [posts |-> <<>>,
          outcome |-> Raised("TypeError", "run() missing 1 required positional argument", "")]
    ELSE IF ~Truthy(text) \/ ~IsStr(text)
    THEN [posts |-> <<>>,
          outcome |-> Raised("ValueError", "text must be a non-empty string.", "")]
    ELSE LET sent == SlackNotifier_send_request(
                         self, SlackNotifier_make_payload(self, text, color), response)
         IN IF sent.outcome.kind = "raise"
            THEN sent
            ELSE [posts |-> sent.posts, outcome |-> Returned("NoneType", <<>>)]

\* run(text, color)
SlackNotifier_run(self, text, color, response) ==
    IF text = Missing \/ color = Missing
    THEN [posts |-> <<>>,
          outcome |-> Raised("TypeError", "run() missing 1 required positional argument", "")]
    ELSE IF ~Truthy(text) \/ ~IsStr(text)
    THEN [posts |-> <<>>,
          outcome |-> Raised("ValueError", "text must be a non-empty string.", "")]
    ELSE IF ~Truthy(color) \/ ~IsStr(color)
    THEN [posts |-> <<>>,
          outcome |-> Raised("ValueError", "color must be a non-empty string.", "")]
    ELSE LET sent == SlackNotifier_send_request(
                         self, SlackNotifier_make_payload(self, text, color), response)
         IN IF sent.outcome.kind = "raise"
            THEN sent
            ELSE [posts |-> sent.posts, outcome |-> Returned("NoneType", <<>>)]

\* the older notifier, utils/_slack_notifier.py
LegacySlackNotifier_init(webhook_url, channel, username, icon) ==
    [cls |-> "utils.SlackNotifier",
     webhook_url |-> webhook_url,
     channel |-> channel,
     username |-> username,
     icon |-> icon]

LegacySlackNotifier_send_request(self, payload, response) ==
    LET post == [url |-> self.webhook_url, data |-> json_dumps(payload)]
    IN IF response.transport # "ok"
       THEN [posts |-> <<post>>,
             outcome |-> Raised("RequestException", "Failed to send notification",
                                response.transport)]
       ELSE IF raise_for_status(response.status)
       THEN [posts |-> <<post>>,
             outcome |-> Raised("RequestException", "Failed to send notification",
                                "HTTPError")]
       ELSE [posts |-> <<post>>, outcome |-> Returned("Response", <<>>)]

LegacySlackNotifier_notify(self, text, color, response) ==
    IF text = Missing \/ color = Missing
    THEN [posts |-> <<>>,
          outcome |-> Raised("TypeError", "notify() missing 1 required positional argument", "")]
    ELSE IF ~Truthy(text) \/ ~IsStr(text)
    THEN [posts |-> <<>>,
          outcome |-> Raised("ValueError", "text must be a non-empty string.", "")]
    ELSE IF ~Truthy(color) \/ ~IsStr(color)
    THEN [posts |-> <<>>,
          outcome |-> Raised("ValueError", "color must be a non-empty string.", "")]
    ELSE LET payload == [channel |-> self.channel,
                         username |-> self.username,
                         icon_emoji |-> self.icon,
                         attachments |-> <<[color |-> color, text |-> text]>>]
             sent == LegacySlackNotifier_send_request(self, payload, response)
         IN IF sent.outcome.kind = "raise"
            THEN sent
            ELSE [posts |-> sent.posts, outcome |-> Returned("NoneType", <<>>)]

-----------------------------------------------------------------------------
(* main.py *)

\* as load_environment_variables, without the check of WEBHOOK_URL
load_environment_variables_KeyOnly(env) ==
    IF IsNone(env.OPENAI_API_KEY)
    THEN [outcome |-> Raised("ValueError", "OPENAI_API_KEY is not defined.", ""),
          value |-> [openai_api_key |-> None, webhook_url |-> None],
          log |-> <<LogLine("ERROR", "OPENAI_API_KEY is not defined.", <<>>)>>]
    ELSE [outcome |-> Returned("SimpleNamespace", <<>>),
          value |-> [openai_api_key |-> env.OPENAI_API_KEY,
                     webhook_url |-> env.WEBHOOK_URL],
          log |-> <<>>]

\* load_environment_variables(): os.getenv gives None for a variable that is not set
load_environment_variables(env) ==
    IF IsNone(env.OPENAI_API_KEY)
    THEN [outcome |-> Raised("ValueError", "OPENAI_API_KEY is not defined.", ""),
          value |-> [openai_api_key |-> None, webhook_url |-> None],
          log |-> <<LogLine("ERROR", "OPENAI_API_KEY is not defined.", <<>>)>>]
    ELSE IF IsNone(env.WEBHOOK_URL)
    THEN [outcome |-> Raised("ValueError", "WEBHOOK_URL is not defined.", ""),
          value |-> [openai_api_key |-> None, webhook_url |-> None],
          log |-> <<LogLine("ERROR", "WEBHOOK_URL is not defined.", <<>>)>>]
    ELSE [outcome |-> Returned("SimpleNamespace", <<>>),
          value |-> [openai_api_key |-> env.OPENAI_API_KEY,
                     webhook_url |-> env.WEBHOOK_URL],
          log |-> <<>>]

\* chain.invoke({"english_passage": summary}), the n-th completion request of the
\* run: the service answers with the passage prefixed, or the request fails and
\* the client raises
chain_invoke(summary, n) ==
    IF n = llm_fail_at
    THEN Raised("OpenAIError", "completion request failed", "")
    ELSE Returned("str", <<"[JA] " \o summary>>)

\* the webhook's answer to the n-th POST of the run
webhook_response(n) ==
    IF n = webhook_fail_at
    THEN [transport |-> "ok", status |-> 500]
    ELSE [transport |-> "ok", status |-> 200]

\* for summary in summary_list: translate, construct a notifier, notifier.run(text=result);
\* the call passes no color. acc: the requests issued so far and how the loop ended.
RECURSIVE main_loop(_, _, _, _)
main_loop(notifier_config, summaries, i, acc) ==
    IF i > Len(summaries)
    THEN acc
    ELSE LET result == chain_invoke(summaries[i], acc.completions + 1)
         IN IF result.kind = "raise"
            THEN [acc EXCEPT !.completions = @ + 1, !.outcome = result]
            ELSE LET sent == SlackNotifier_run(SlackNotifier_init(notifier_config),
                                               PyStr(result.value[1]), Missing,
                                               webhook_response(Len(acc.posts) + 1))
                     after == [acc EXCEPT !.completions = @ + 1,
                                          !.posts = @ \o sent.posts]
                 IN IF sent.outcome.kind = "raise"
                    THEN [after EXCEPT !.outcome = sent.outcome]
                    ELSE main_loop(notifier_config, summaries, i + 1, after)

\* as the handler, were it written `except ValueError`
except_ValueError(e) == e = "ValueError"

\* except Exception: every exception but the interpreter's exit signals
except_Exception(e) == e \notin {"KeyboardInterrupt", "SystemExit", "GeneratorExit"}

NoSecrets == [openai_api_key |-> None, webhook_url |-> None]
NoFetcher ==
    [date |-> <<>>, category |-> <<>>, max_results |-> 0, query |-> NoneObj,
     results |-> NoneObj]
NoAnswer == [err |-> "", records |-> <<>>]
NoCall == [op |-> "", text |-> Missing, color |-> Missing,
           response |-> [transport |-> "", status |-> 0]]

EnvValues(present) == {None, PyStr(present)}

\* `python main.py`: the environment and the services are the run's inputs
Init ==
    /\ environ \in [OPENAI_API_KEY : EnvValues("sk-test"),
                    WEBHOOK_URL : EnvValues("https://hooks.slack.test/T0")]
    /\ llm_fail_at \in 0..DefaultMaxResults
    /\ webhook_fail_at \in 0..DefaultMaxResults
    /\ index = NoAnswer
    /\ pc = "main:78"
    /\ exc = NoOutcome
    /\ secrets = NoSecrets
    /\ fetcher = NoFetcher
    /\ summary_list = <<>>
    /\ notifier = NoNotifier
    /\ call = NoCall
    /\ outcome = NoOutcome
    /\ ncalls = 0
    /\ log = <<>>
    /\ searches = 0
    /\ completions = 0
    /\ posts = <<>>

\* main.py:78
LoadEnvironment ==
    /\ pc = "main:78"
    /\ LET r == load_environment_variables(environ)
       IN IF r.outcome.kind = "raise"
          THEN /\ exc' = r.outcome
               /\ pc' = "except"
               /\ UNCHANGED secrets
          ELSE /\ secrets' = r.value
               /\ pc' = "main:81"
               /\ UNCHANGED exc
    /\ log' = log \o load_environment_variables(environ).log
    /\ UNCHANGED <<environ, llm_fail_at, webhook_fail_at, index, fetcher, summary_list,
                   notifier, call, outcome, ncalls, searches, completions, posts>>

\* main.py:81-84: the fetcher of the fixed day, with the default category and
\* max_results, and its run()
Fetch ==
    /\ pc = "main:81"
    /\ \E answer \in ArxivAnswers :
         LET r == ArxivPaperFetcher_run(
                      ArxivPaperFetcher_init(ArxivPaperFetcherConfig([date |-> d_20240606])),
                      answer)
         IN /\ index' = answer
            /\ fetcher' = r.self
            /\ log' = log \o r.log
            /\ IF r.outcome.kind = "raise"
               THEN /\ exc' = r.outcome
                    /\ pc' = "except"
                    /\ UNCHANGED summary_list
               ELSE /\ summary_list' = r.outcome.value
                    /\ pc' = "main:86"
                    /\ UNCHANGED exc
    /\ searches' = searches + 1
    /\ UNCHANGED <<environ, llm_fail_at, webhook_fail_at, secrets, notifier, call, outcome,
                   ncalls, completions, posts>>

\* main.py:86-95: the prompt template, the model client and the chain; no request
BuildChain ==
    /\ pc = "main:86"
    /\ pc' = "main:97"
    /\ UNCHANGED <<environ, llm_fail_at, webhook_fail_at, index, exc, secrets, fetcher,
                   summary_list, notifier, call, outcome, ncalls, log, searches,
                   completions, posts>>

\* main.py:97-102: the notifier configuration from the webhook URL alone, then the loop
NotifyAll ==
    /\ pc = "main:97"
    /\ LET config == SlackNotifierConfig_init(secrets.webhook_url, Missing, Missing, Missing)
           loop == main_loop(config.value, summary_list, 1,
                             [completions |-> completions, posts |-> posts,
                              outcome |-> Returned("NoneType", <<>>)])
       IN IF config.raised # ""
          THEN /\ exc' = Raised(config.raised, config.msg, "")
               /\ pc' = "except"
               /\ UNCHANGED <<completions, posts>>
          ELSE /\ completions' = loop.completions
               /\ posts' = loop.posts
               /\ IF loop.outcome.kind = "raise"
                  THEN /\ exc' = loop.outcome
                       /\ pc' = "except"
                  ELSE /\ pc' = "done"
                       /\ UNCHANGED exc
    /\ UNCHANGED <<environ, llm_fail_at, webhook_fail_at, index, secrets, fetcher,
                   summary_list, notifier, call, outcome, ncalls, log, searches>>

\* main.py:109-110: the handler of the __main__ block
Except ==
    /\ pc = "except"
    /\ IF except_Exception(exc.exc)
       THEN /\ log' = Append(log, LogLine("ERROR", "Unexpected error occurred", <<exc.msg>>))
            /\ pc' = "done"
       ELSE /\ pc' = "crashed"
            /\ UNCHANGED log
    /\ UNCHANGED <<environ, llm_fail_at, webhook_fail_at, index, exc, secrets, fetcher,
                   summary_list, notifier, call, outcome, ncalls, searches, completions,
                   posts>>

Next == LoadEnvironment \/ Fetch \/ BuildChain \/ NotifyAll \/ Except

Spec == Init /\ [][Next]_vars

\* a sequential program: the interpreter takes the next step whenever there is one,
\* and every blocking request returns or fails
SpecLive == Init /\ [][Next]_vars /\ WF_vars(Next)

-----------------------------------------------------------------------------
(* An ArxivPaperFetcher object and its callers *)

Dates == {d_20240606, d_20240101, d_19991231}
Categories == {c_quant_ph, c_cs_AI, c_cat, c_AND}
MaxResultsValues == {1, 2}
FetcherKwargs ==
    {[date |-> d] : d \in Dates}
        \cup {[date |-> d, category |-> c, max_results |-> m] :
                  d \in Dates, c \in Categories, m \in MaxResultsValues}

Component ==
    /\ environ = [OPENAI_API_KEY |-> None, WEBHOOK_URL |-> None]
    /\ llm_fail_at = 0
    /\ webhook_fail_at = 0
    /\ index = NoAnswer
    /\ pc = "component"
    /\ exc = NoOutcome
    /\ secrets = NoSecrets
    /\ summary_list = <<>>
    /\ call = NoCall
    /\ outcome = NoOutcome
    /\ ncalls = 0
    /\ log = <<>>
    /\ searches = 0
    /\ completions = 0
    /\ posts = <<>>

InitFetcher ==
    /\ Component
    /\ fetcher \in {ArxivPaperFetcher_init(ArxivPaperFetcherConfig(kw)) : kw \in FetcherKwargs}
    /\ notifier = NoNotifier

\* fetcher.run(), with the answer the service gives to its search request
FetcherRun ==
    /\ pc = "component"
    /\ ncalls < MaxCalls
    /\ \E answer \in ArxivAnswers :
         LET r == ArxivPaperFetcher_run(fetcher, answer)
         IN /\ index' = answer
            /\ fetcher' = r.self
            /\ outcome' = r.outcome
            /\ log' = r.log
    /\ call' = [NoCall EXCEPT !.op = "ArxivPaperFetcher.run"]
    /\ ncalls' = ncalls + 1
    /\ searches' = searches + 1
    /\ UNCHANGED <<environ, llm_fail_at, webhook_fail_at, pc, exc, secrets, summary_list,
                   notifier, completions, posts>>

NextFetcher == FetcherRun

SpecFetcher == InitFetcher /\ [][NextFetcher]_vars

-----------------------------------------------------------------------------
(* Notifier objects and their callers *)

Url == PyStr("https://hooks.slack.test/T0")
Channel == PyStr("#arxiv")
ConfigArgs ==
    {<<Url, Channel, Missing, Missing>>,
     <<Url, Channel, PyStr("bot"), PyStr(":bell:")>>,
     <<Url, Missing, Missing, Missing>>}
Texts == {PyStr(""), PyStr("hello"), PyStr("[JA] A"), None, PyInt("0"), PyInt("5")}
Colors == {PyStr(""), PyStr("good"), None, PyInt("5"), Missing}

InitNotifier ==
    /\ Component
    /\ fetcher = NoFetcher
    /\ notifier = NoNotifier

\* SlackNotifier(SlackNotifierConfig(...))
NewNotifier ==
    /\ pc = "component"
    /\ notifier = NoNotifier
    /\ \E a \in ConfigArgs :
         LET config == SlackNotifierConfig_init(a[1], a[2], a[3], a[4])
         IN IF config.raised # ""
            THEN /\ outcome' = Raised(config.raised, config.msg, "")
                 /\ UNCHANGED notifier
            ELSE /\ outcome' = Returned("SlackNotifier", <<>>)
                 /\ notifier' = SlackNotifier_init(config.value)
    /\ call' = [NoCall EXCEPT !.op = "SlackNotifierConfig"]
    /\ UNCHANGED <<environ, llm_fail_at, webhook_fail_at, index, pc, exc, secrets, fetcher,
                   summary_list, ncalls, log, searches, completions, posts>>

\* the older class: SlackNotifier(webhook_url, channel, username, icon)
NewLegacyNotifier ==
    /\ pc = "component"
    /\ notifier = NoNotifier
    /\ notifier' = LegacySlackNotifier_init(Url, Channel, PyStr("bot"), PyStr(":bell:"))
    /\ outcome' = Returned("SlackNotifier", <<>>)
    /\ call' = [NoCall EXCEPT !.op = "SlackNotifier"]
    /\ UNCHANGED <<environ, llm_fail_at, webhook_fail_at, index, pc, exc, secrets, fetcher,
                   summary_list, ncalls, log, searches, completions, posts>>

\* notifier.run(text, color), with what the webhook does with a POST
NotifierRun ==
    /\ pc = "component"
    /\ notifier.cls = "slack.SlackNotifier"
    /\ ncalls < MaxCalls
    /\ \E text \in Texts, color \in Colors, response \in Responses :
         LET r == SlackNotifier_run(notifier, text, color, response)
         IN /\ posts' = posts \o r.posts
            /\ outcome' = r.outcome
            /\ call' = [op |-> "run", text |-> text, color |-> color,
                        response |-> response]
    /\ ncalls' = ncalls + 1
    /\ UNCHANGED <<environ, llm_fail_at, webhook_fail_at, index, pc, exc, secrets, fetcher,
                   summary_list, notifier, log, searches, completions>>

\* notifier.notify(text, color) of the older class
NotifierNotify ==
    /\ pc = "component"
    /\ notifier.cls = "utils.SlackNotifier"
    /\ ncalls < MaxCalls
    /\ \E text \in Texts, color \in Colors, response \in Responses :
         LET r == LegacySlackNotifier_notify(notifier, text, color, response)
         IN /\ posts' = posts \o r.posts
            /\ outcome' = r.outcome
            /\ call' = [op |-> "notify", text |-> text, color |-> color,
                        response |-> response]
    /\ ncalls' = ncalls + 1
    /\ UNCHANGED <<environ, llm_fail_at, webhook_fail_at, index, pc, exc, secrets, fetcher,
                   summary_list, notifier, log, searches, completions>>

NextNotifier == NewNotifier \/ NewLegacyNotifier \/ NotifierRun \/ NotifierNotify

SpecNotifier == InitNotifier /\ [][NextNotifier]_vars

-----------------------------------------------------------------------------
(* Properties *)

Occurrences(pat, str) ==
    Cardinality({i \in 1..(Len(str) - Len(pat) + 1) : SubSeq(str, i, i + Len(pat) - 1) = pat})

StartsWith(str, pat) == Len(pat) <= Len(str) /\ SubSeq(str, 1, Len(pat)) = pat

\* the body of a POST holds the text
BodyContains(post, text) == \E i \in 1..Len(post.data) : post.data[i] = text

SecretsPresent == ~IsNone(environ.OPENAI_API_KEY) /\ ~IsNone(environ.WEBHOOK_URL)

\* text and color were passed and both are non-empty strings
ValidArgs(c) ==
    /\ c.text.t = "str" /\ c.text.v # ""
    /\ c.color.t = "str" /\ c.color.v # ""

\* text and color were passed and one of them is empty or not a string
InvalidArgs(c) ==
    /\ c.text # Missing /\ c.color # Missing
    /\ ~ValidArgs(c)

NotifierCall(c) == c.op \in {"run", "notify"}

\* C1: a run of the driver with both secrets, an index answering with the records
\* "A" and "B", a completion service that never fails and a webhook that accepts
\* every POST ends with exactly two POSTs, the first carrying "[JA] A" and the
\* second "[JA] B".
C1_EndToEndTwoPosts ==
    (/\ pc = "done"
     /\ SecretsPresent
     /\ fetcher.date = d_20240606 /\ fetcher.category = c_quant_ph
     /\ fetcher.max_results = 2
     /\ index = [err |-> "none", records |-> <<[summary |-> "A"], [summary |-> "B"]>>]
     /\ llm_fail_at = 0 /\ webhook_fail_at = 0)
        => /\ Len(posts) = 2
           /\ BodyContains(posts[1], "[JA] A")
           /\ BodyContains(posts[2], "[JA] B")

\* C2: a call of run() or notify() with an empty or non-string text or color
\* raises ValueError and issues no POST.
C2_InvalidArgsNoPost ==
    [][(ncalls' = ncalls + 1 /\ NotifierCall(call') /\ InvalidArgs(call'))
          => (/\ outcome'.kind = "raise"
              /\ outcome'.exc = "ValueError"
              /\ posts' = posts)]_vars

\* a second call, after one that posted, with a valid text and an empty color
C2_Witness ==
    /\ call.op = "run" /\ ncalls = 2
    /\ call.text = PyStr("hello") /\ call.color = PyStr("")
    /\ outcome.exc = "ValueError"
    /\ Len(posts) = 1

C4_FetcherNeverRaises ==
    call.op = "ArxivPaperFetcher.run"
        => /\ outcome.kind = "return" /\ outcome.vt = "list"
           /\ fetcher.results.t = "list"
           /\ (index.err # "none" \/ index.records = <<>>)
                 => /\ outcome.value = <<>>
                    /\ fetcher.results.v = <<>>
                    /\ \E i \in 1..Len(log) : log[i].level = "WARNING"

\* a second run() whose search failed with an exception of no special class
C4_Witness ==
    /\ call.op = "ArxivPaperFetcher.run" /\ ncalls = 2
    /\ index.err = "ConnectionError"
    /\ outcome.kind = "return" /\ outcome.value = <<>>

\* the query of a fetcher, read as <prefix><cat> AND submittedDate:[<lo> TO <hi>]
QueryForm(prefix, self) ==
    LET q == self.query.v
        head == prefix \o self.category \o s_AND \o s_submittedDate
        range == (self.date \o s_0000) \o s_TO \o (self.date \o s_2359) \o s_close
    IN /\ self.query.t = "chars"
       /\ Occurrences(prefix, q) = 1
       /\ Occurrences(s_submittedDate, q) = 1
       /\ Occurrences(s_AND, q) = 1
       /\ StartsWith(q, head)
       /\ SubSeq(q, Len(head) + 1, Len(q)) = range

s_category == <<"c", "a", "t", "e", "g", "o", "r", "y", ":">>

\* C5, as claimed: after run() the query holds exactly one clause category:<cat>
\* and one date range <date>0000 TO <date>2359, joined by AND.
C5_CategoryClause ==
    call.op = "ArxivPaperFetcher.run" => QueryForm(s_category, fetcher)

\* C5, amended: after run() the query holds exactly one clause cat:<cat> and one
\* date range <date>0000 TO <date>2359, joined by AND, and a later run() of the
\* same fetcher leaves the query as it is.
C5_CatClause ==
    /\ [](call.op = "ArxivPaperFetcher.run" => QueryForm(s_cat, fetcher))
    /\ [][fetcher.query.t = "chars" => fetcher'.query = fetcher.query]_vars

\* a second run() of a fetcher of category "cat"
C5_Witness ==
    /\ call.op = "ArxivPaperFetcher.run" /\ ncalls = 2
    /\ fetcher.category = c_cat /\ fetcher.date = d_19991231
    /\ Len(fetcher.query.v) = Len(s_cat) + 3 + Len(s_AND) + Len(s_submittedDate) + 12 + 4 + 12 + 1

\* C6: a call of run() or notify() with valid text and color issues exactly one
\* POST, to the notifier's webhook and carrying the text, however the POST ends.
C6_OnePostPerCall ==
    [][(ncalls' = ncalls + 1 /\ NotifierCall(call') /\ ValidArgs(call'))
          => (/\ Len(posts') = Len(posts) + 1
              /\ SubSeq(posts', 1, Len(posts)) = posts
              /\ posts'[Len(posts')].url = notifier.webhook_url
              /\ BodyContains(posts'[Len(posts')], call'.text.v))]_vars

\* two calls with the same arguments, the second one failed: two equal POSTs
C6_Witness ==
    /\ call.op = "run" /\ ncalls = 2 /\ ValidArgs(call)
    /\ outcome.kind = "raise" /\ call.response.status = 500
    /\ Len(posts) = 2 /\ posts[1] = posts[2]

\* C7: with a secret absent the driver issues no search request, no completion
\* request and no POST, and ends in the handler with a ValueError naming the
\* variable that is not defined.
C7_MissingSecretNoWork ==
    ~SecretsPresent
        => /\ searches = 0 /\ completions = 0 /\ posts = <<>>
           /\ pc \in {"main:78", "except", "done"}
           /\ pc # "main:78"
                 => /\ exc.exc = "ValueError"
                    /\ exc.msg = (IF IsNone(environ.OPENAI_API_KEY)
                                  THEN "OPENAI_API_KEY is not defined."
                                  ELSE "WEBHOOK_URL is not defined.")
                    /\ \E i \in 1..Len(log) : log[i].level = "ERROR" /\ log[i].msg = exc.msg

\* a finished run without the webhook URL
C7_Witness ==
    /\ pc = "done"
    /\ ~IsNone(environ.OPENAI_API_KEY) /\ IsNone(environ.WEBHOOK_URL)
    /\ exc.msg = "WEBHOOK_URL is not defined."

\* C8: when the completion service fails the i-th request of a run that fetched at
\* least i abstracts, the run is ended by an exception, no completion request
\* follows the i-th, and exactly the first i-1 translations were posted, once each,
\* in order.
C8_TranslationFailureAborts ==
    (/\ pc = "done" /\ SecretsPresent
     /\ llm_fail_at \in 1..Len(summary_list)
     /\ webhook_fail_at = 0)
        => /\ exc.kind = "raise"
           /\ completions <= llm_fail_at
           /\ Len(posts) = llm_fail_at - 1
           /\ \A k \in 1..Len(posts) : BodyContains(posts[k], "[JA] " \o summary_list[k])

\* C9: every run of the driver ends, no exception leaves the handler of the
\* __main__ block, and a run ended by an exception logged it.
C9_DriverTerminates ==
    /\ [](pc # "crashed")
    /\ (pc # "done") ~> (pc = "done")
    /\ [](pc = "done" /\ exc.kind = "raise"
             => log[Len(log)] = LogLine("ERROR", "Unexpected error occurred", <<exc.msg>>))

\* a finished run whose notifier configuration raised
C9_Witness ==
    /\ pc = "done" /\ SecretsPresent
    /\ exc.exc = "TypeError"
    /\ log[Len(log)].msg = "Unexpected error occurred"

\* completion requests that were answered
SuccessfulCompletions == IF exc.exc = "OpenAIError" THEN completions - 1 ELSE completions

=============================================================================
